---- MODULE Spec2Model ----
(***************************************************************************)
(* BoilerAI CLI server (src/cli_server.py): the session object, the key    *)
(* setup, the HTTP handler and main(), as a state machine.                 *)
(*                                                                         *)
(* Representation.  A Python str is a sequence of text units (each unit a  *)
(* TLA+ string: one character where the code looks at characters, a whole  *)
(* literal where it only compares or copies).  A request or response body  *)
(* is a sequence of JSON tokens; insignificant whitespace between tokens   *)
(* is not represented.  A Python value is a record with a type tag t.      *)
(***************************************************************************)
EXTENDS Integers, Sequences, FiniteSets, TLC

VARIABLES
    env,         \* the process environment: GEMINI_API_KEY
    cli_server,  \* the global BoilerAICLIServer instance (line 92)
    pc,          \* where main() / setup_api_key() stands
    setup_ret,   \* what setup_api_key returned ("none" before it returns)
    stdin_line,  \* the line the last input() call returned
    prompted,    \* whether input() has been called
    conn,        \* the client connection: "idle", "pending", "answered"
    request,     \* the request in flight
    wire,        \* the responses written to wfile for the request in flight
    seen,        \* the session as the handler read it for that request
    echo_calls   \* calls of cli_server.process_query made for that request

vars == <<env, cli_server, pc, setup_ret, stdin_line, prompted,
          conn, request, wire, seen, echo_calls>>

----------------------------------------------------------------------------
(* Bounds and program constants *)

\* every token sequence up to this length is a request body (with the samples)
MaxBodyLen == 1

\* query[:100] at line 144
LogSlice == 100

----------------------------------------------------------------------------
(* Python str *)

Min(a, b) == IF a < b THEN a ELSE b

IsSpace(u) == u \in {" ", "\t", "\n"}

RECURSIVE LStrip(_)
LStrip(s) == IF Len(s) > 0 /\ IsSpace(Head(s)) THEN LStrip(Tail(s)) ELSE s

RECURSIVE RStrip(_)
RStrip(s) ==
    IF Len(s) > 0 /\ IsSpace(s[Len(s)]) THEN RStrip(SubSeq(s, 1, Len(s) - 1)) ELSE s

\* str.strip()
Strip(s) == RStrip(LStrip(s))

LowerUnit(u) ==
    CASE u = "Y" -> "y"
      [] u = "N" -> "n"
      [] u = "A" -> "a"
      [] u = "I" -> "i"
      [] u = "S" -> "s"
      [] u = "K" -> "k"
      [] OTHER -> u

\* str.lower()
Lower(s) == [i \in 1..Len(s) |-> LowerUnit(s[i])]

\* str.startswith(prefix)
StartsWith(s, prefix) ==
    Len(s) >= Len(prefix) /\ SubSeq(s, 1, Len(prefix)) = prefix

\* s[:n]
Slice(s, n) == SubSeq(s, 1, Min(n, Len(s)))

\* the prefix of line 66
GeminiPrefix == <<"A", "I", "z", "a", "S", "y">>

\* a lone surrogate code point, which JSON text can denote ("\ud800") and
\* UTF-8 cannot encode
Surrogate == "\\ud800"

----------------------------------------------------------------------------
(* Python values *)

PyNone == [t |-> "NoneType"]
PyStr(s) == [t |-> "str", s |-> s]
PyBool(b) == [t |-> "bool", b |-> b]
PyInt == [t |-> "int"]
PyNaN == [t |-> "float"]
PyList(items) == [t |-> "list", items |-> items]
PyDict(pairs) == [t |-> "dict", pairs |-> pairs]
PyBytes(toks) == [t |-> "bytes", items |-> toks]
Pair(k, v) == [k |-> k, v |-> v]

HasKey(pairs, k) == \E i \in 1..Len(pairs) : pairs[i].k = k

\* d[k] = v: a key already present keeps its place and takes the new value
DictSet(pairs, k, v) ==
    IF HasKey(pairs, k)
    THEN [i \in 1..Len(pairs) |-> IF pairs[i].k = k THEN Pair(k, v) ELSE pairs[i]]
    ELSE Append(pairs, Pair(k, v))

\* dict.get(k, default)
DictGet(d, k, default) ==
    IF HasKey(d.pairs, k)
    THEN d.pairs[CHOOSE i \in 1..Len(d.pairs) : d.pairs[i].k = k].v
    ELSE default

DictKeys(d) == {d.pairs[i].k : i \in 1..Len(d.pairs)}

\* bool(x) for the values the session holds
Truthy(x) ==
    CASE x.t = "NoneType" -> FALSE
      [] x.t = "str" -> Len(x.s) > 0
      [] x.t = "bool" -> x.b
      [] OTHER -> TRUE

----------------------------------------------------------------------------
(* JSON text as tokens *)

Tok(k) == [k |-> k, s |-> <<>>]
TStr(s) == [k |-> "str", s |-> s]
LBrace == Tok("{")
RBrace == Tok("}")
LBracket == Tok("[")
RBracket == Tok("]")
Colon == Tok(":")
Comma == Tok(",")
TNum == Tok("num")
TNaN == Tok("NaN")
TTrue == Tok("true")
TFalse == Tok("false")
TNull == Tok("null")
\* characters that begin no JSON token
TJunk == Tok("junk")
\* bytes that are not UTF-8
TBadUtf8 == Tok("badutf8")

ParseOk(v, rest) == [ok |-> TRUE, val |-> v, rest |-> rest, err |-> <<>>]
ParseErr(msg) == [ok |-> FALSE, val |-> PyNone, rest |-> <<>>, err |-> <<msg>>]

RECURSIVE ParseValue(_)
RECURSIVE ParseMembers(_, _)
RECURSIVE ParseElements(_, _)

\* json.scanner: one value at the head of toks.  Python's decoder takes the
\* constant NaN (as Infinity and -Infinity), which RFC 8259 does not allow.
ParseValue(toks) ==
    IF Len(toks) = 0 THEN ParseErr("Expecting value")
    ELSE LET h == Head(toks)
             r == Tail(toks)
         IN CASE h.k = "str" -> ParseOk(PyStr(h.s), r)
              [] h.k = "num" -> ParseOk(PyInt, r)
              [] h.k = "NaN" -> ParseOk(PyNaN, r)
              [] h.k = "true" -> ParseOk(PyBool(TRUE), r)
              [] h.k = "false" -> ParseOk(PyBool(FALSE), r)
              [] h.k = "null" -> ParseOk(PyNone, r)
              [] h.k = "{" ->
                    IF Len(r) > 0 /\ Head(r).k = "}"
                    THEN ParseOk(PyDict(<<>>), Tail(r))
                    ELSE ParseMembers(r, <<>>)
              [] h.k = "[" ->
                    IF Len(r) > 0 /\ Head(r).k = "]"
                    THEN ParseOk(PyList(<<>>), Tail(r))
                    ELSE ParseElements(r, <<>>)
              [] OTHER -> ParseErr("Expecting value")

\* json.decoder.JSONObject after "{": key ":" value, then "," or "}"
ParseMembers(toks, acc) ==
    IF Len(toks) = 0 \/ Head(toks).k # "str"
    THEN ParseErr("Expecting property name enclosed in double quotes")
    ELSE IF Len(toks) < 2 \/ toks[2].k # ":"
    THEN ParseErr("Expecting ':' delimiter")
    ELSE LET v == ParseValue(SubSeq(toks, 3, Len(toks)))
         IN IF ~v.ok THEN v
            ELSE LET pairs == DictSet(acc, Head(toks).s, v.val)
                 IN IF Len(v.rest) > 0 /\ Head(v.rest).k = "}"
                    THEN ParseOk(PyDict(pairs), Tail(v.rest))
                    ELSE IF Len(v.rest) > 0 /\ Head(v.rest).k = ","
                    THEN ParseMembers(Tail(v.rest), pairs)
                    ELSE ParseErr("Expecting ',' delimiter")

\* json.decoder.JSONArray after "[": value, then "," or "]"
ParseElements(toks, acc) ==
    LET v == ParseValue(toks)
    IN IF ~v.ok THEN v
       ELSE LET items == Append(acc, v.val)
            IN IF Len(v.rest) > 0 /\ Head(v.rest).k = "]"
               THEN ParseOk(PyList(items), Tail(v.rest))
               ELSE IF Len(v.rest) > 0 /\ Head(v.rest).k = ","
               THEN ParseElements(Tail(v.rest), items)
               ELSE ParseErr("Expecting ',' delimiter")

\* json.loads(text): one value and nothing after it
JsonLoads(toks) ==
    LET v == ParseValue(toks)
    IN IF v.ok /\ Len(v.rest) > 0 THEN ParseErr("Extra data") ELSE v

\* bytes.decode(): UnicodeDecodeError on bytes that are not UTF-8
DecodeFails(toks) == \E i \in 1..Len(toks) : toks[i].k = "badutf8"

RECURSIVE JsonDumps(_)
RECURSIVE DumpItems(_)
RECURSIVE DumpPairs(_)

\* json.dumps(obj) with the default ensure_ascii and allow_nan
JsonDumps(v) ==
    CASE v.t = "str" -> <<TStr(v.s)>>
      [] v.t = "int" -> <<TNum>>
      [] v.t = "float" -> <<TNaN>>
      [] v.t = "bool" -> IF v.b THEN <<TTrue>> ELSE <<TFalse>>
      [] v.t = "NoneType" -> <<TNull>>
      [] v.t = "list" -> <<LBracket>> \o DumpItems(v.items) \o <<RBracket>>
      [] v.t = "dict" -> <<LBrace>> \o DumpPairs(v.pairs) \o <<RBrace>>

DumpItems(items) ==
    IF Len(items) = 0 THEN <<>>
    ELSE IF Len(items) = 1 THEN JsonDumps(items[1])
    ELSE JsonDumps(items[1]) \o <<Comma>> \o DumpItems(Tail(items))

DumpPairs(pairs) ==
    IF Len(pairs) = 0 THEN <<>>
    ELSE LET one == <<TStr(pairs[1].k), Colon>> \o JsonDumps(pairs[1].v)
         IN IF Len(pairs) = 1 THEN one
            ELSE one \o <<Comma>> \o DumpPairs(Tail(pairs))

RECURSIVE StrictValue(_)
\* whether a parsed value came only from tokens RFC 8259 allows
StrictValue(v) ==
    CASE v.t = "float" -> FALSE
      [] v.t = "list" -> \A i \in 1..Len(v.items) : StrictValue(v.items[i])
      [] v.t = "dict" -> \A i \in 1..Len(v.pairs) : StrictValue(v.pairs[i].v)
      [] OTHER -> TRUE

----------------------------------------------------------------------------
(* The session: SimpleBoilerAI and BoilerAICLIServer *)

S(text) == PyStr(<<text>>)
K(text) == <<text>>

\* SimpleBoilerAI.__init__
SimpleBoilerAI_init(api_key) ==
    [t |-> "SimpleBoilerAI", api_key |-> api_key, provider |-> S("gemini")]

\* SimpleBoilerAI.process_query
SimpleBoilerAI_process_query(self, query) ==
    PyDict(<<Pair(K("success"), PyBool(TRUE)),
             Pair(K("response"), query),
             Pair(K("provider"), self.provider),
             Pair(K("api_key_set"), PyBool(Truthy(self.api_key)))>>)

\* BoilerAICLIServer.__init__
BoilerAICLIServer_init ==
    [api_key |-> PyNone, provider |-> S("gemini"), cli_agent |-> PyNone,
     initialized |-> FALSE]

NotInitializedEnvelope ==
    PyDict(<<Pair(K("success"), PyBool(FALSE)),
             Pair(K("error"), S("CLI not initialized"))>>)

\* process_query marking the session initialized on first use
BoilerAICLIServer_process_query_lazy_init(self, query) ==
    [self |-> [self EXCEPT !.initialized = TRUE],
     ret  |-> IF Truthy(self.cli_agent)
              THEN SimpleBoilerAI_process_query(self.cli_agent, query)
              ELSE NotInitializedEnvelope]

\* BoilerAICLIServer.process_query: the session after the call and the result
BoilerAICLIServer_process_query(self, query) ==
    [self |-> self,
     ret  |-> IF Truthy(self.cli_agent)
              THEN SimpleBoilerAI_process_query(self.cli_agent, query)
              ELSE NotInitializedEnvelope]

----------------------------------------------------------------------------
(* The HTTP handler *)

Header(name, value) == [name |-> name, value |-> value]
CorsOrigin == Header("Access-Control-Allow-Origin", "*")
CorsMethods == Header("Access-Control-Allow-Methods", "GET, POST, OPTIONS")
CorsHeaders == Header("Access-Control-Allow-Headers", "Content-Type")
ContentTypeJson == Header("Content-Type", "application/json")

Response(status, headers, body) ==
    [status |-> status, headers |-> headers, body |-> body]

Handled(self, responses, calls) ==
    [self |-> self, wire |-> responses, echo_calls |-> calls]

\* do_OPTIONS
do_OPTIONS(self, req) ==
    Handled(self, <<Response(200, {CorsOrigin, CorsMethods, CorsHeaders}, <<>>)>>, 0)

\* the health body reporting whether the agent exists, not the flag
HealthBody_agent_flag(self) ==
    PyDict(<<Pair(K("status"), S("ok")),
             Pair(K("initialized"), PyBool(Truthy(self.cli_agent))),
             Pair(K("provider"), self.provider),
             Pair(K("mode"), S("echo"))>>)

\* the response dict of do_GET
HealthBody(self) ==
    PyDict(<<Pair(K("status"), S("ok")),
             Pair(K("initialized"), PyBool(self.initialized)),
             Pair(K("provider"), self.provider),
             Pair(K("mode"), S("echo"))>>)

\* do_GET
do_GET(self, req) ==
    IF req.path = "/health"
    THEN Handled(self, <<Response(200, {ContentTypeJson, CorsOrigin},
                                  JsonDumps(HealthBody(self)))>>, 0)
    ELSE Handled(self, <<Response(404, {}, <<>>)>>, 0)

Raised(msg) == [raised |-> TRUE, msg |-> msg, val |-> PyNone]
Returned(v) == [raised |-> FALSE, msg |-> <<>>, val |-> v]

\* int(self.headers['Content-Length']) and self.rfile.read(content_length)
ReadBody(req) ==
    CASE req.content_length.kind = "missing" ->
            Raised(<<"int() argument must be a string, a bytes-like object or a real number, not 'NoneType'">>)
      [] req.content_length.kind = "nonnumeric" ->
            Raised(<<"invalid literal for int() with base 10">>)
      [] OTHER ->
            Returned(PyBytes(Slice(req.body, req.content_length.n)))

\* json.loads(body.decode())
LoadBody(toks) ==
    IF DecodeFails(toks)
    THEN Raised(<<"'utf-8' codec can't decode byte">>)
    ELSE LET v == JsonLoads(toks)
         IN IF v.ok THEN Returned(v.val) ELSE Raised(v.err)

\* data.get('query', '')
GetQuery(data) ==
    IF data.t = "dict"
    THEN Returned(DictGet(data, K("query"), PyStr(<<>>)))
    ELSE Raised(<<"'", data.t, "' object has no attribute 'get'">>)

\* sys.stdout is UTF-8 with the strict error handler: a str holding a lone
\* surrogate cannot be written
Encodable(s) == \A i \in 1..Len(s) : s[i] # Surrogate

\* print(f"[RECV] Query received: {query[:100]}... ({len(query)} chars)")
LogQuery(query) ==
    CASE query.t = "str" ->
            IF Encodable(Slice(query.s, LogSlice))
            THEN Returned(PyNone)
            ELSE Raised(<<"'utf-8' codec can't encode character '", Surrogate,
                          "': surrogates not allowed">>)
      [] query.t = "list" -> Returned(PyNone)
      [] query.t = "dict" -> Raised(<<"unhashable type: 'slice'">>)
      [] OTHER -> Raised(<<"'", query.t, "' object is not subscriptable">>)

ErrorEnvelope(msg) ==
    PyDict(<<Pair(K("success"), PyBool(FALSE)), Pair(K("error"), PyStr(msg))>>)

\* the except branch of do_POST
Respond500(self, msg, calls) ==
    Handled(self, <<Response(500, {ContentTypeJson, CorsOrigin},
                             JsonDumps(ErrorEnvelope(msg)))>>, calls)

\* the try block of do_POST.  The second print (line 153) takes len() of the
\* response, a str or a list, or of '' and writes numbers only.
PostQuery(self, req) ==
    LET body == ReadBody(req) IN
    IF body.raised THEN Respond500(self, body.msg, 0) ELSE
    LET data == LoadBody(body.val.items) IN
    IF data.raised THEN Respond500(self, data.msg, 0) ELSE
    LET query == GetQuery(data.val) IN
    IF query.raised THEN Respond500(self, query.msg, 0) ELSE
    LET logged == LogQuery(query.val) IN
    IF logged.raised THEN Respond500(self, logged.msg, 0) ELSE
    LET result == BoilerAICLIServer_process_query(self, query.val) IN
    Handled(result.self, <<Response(200, {ContentTypeJson, CorsOrigin},
                                    JsonDumps(result.ret))>>, 1)

\* do_POST checking the path inside the try block, after the body is read
do_POST_path_after_body(self, req) ==
    LET body == ReadBody(req) IN
    IF body.raised THEN Respond500(self, body.msg, 0)
    ELSE IF req.path # "/query"
    THEN Handled(self, <<Response(404, {}, <<>>)>>, 0)
    ELSE PostQuery(self, req)

\* do_POST
do_POST(self, req) ==
    IF req.path # "/query"
    THEN Handled(self, <<Response(404, {}, <<>>)>>, 0)
    ELSE PostQuery(self, req)

----------------------------------------------------------------------------
(* Inputs *)

GeminiKey == GeminiPrefix \o <<"K">>
PlainKey == <<"k", "e", "y">>

\* GEMINI_API_KEY: unset, empty, blank, a padded key, a key without the prefix
EnvValues ==
    { [set |-> FALSE, value |-> <<>>],
      [set |-> TRUE, value |-> <<>>],
      [set |-> TRUE, value |-> <<" ", " ">>],
      [set |-> TRUE, value |-> <<" ">> \o GeminiKey \o <<"\n">>],
      [set |-> TRUE, value |-> PlainKey] }

\* lines typed at "Enter your gemini API key: "
KeyLines == { <<>>, <<" ">>, GeminiKey, <<" ">> \o PlainKey \o <<" ">> }

\* lines typed at "Are you sure this is correct? (y/n): "
ConfirmLines == { <<"y">>, <<" ", "Y", " ">>, <<"n">>, <<>> }

Q == TStr(K("query"))
Obj(member) == <<LBrace>> \o member \o <<RBrace>>

\* the query strings of the sample bodies
QueryStrings ==
    { <<"a">>, <<"h", "i", " ", "!">>, <<" ", "a", " ">>, <<Surrogate>>, <<>> }

SampleBodies ==
    { Obj(<<Q, Colon, TStr(q)>>) : q \in QueryStrings }
    \cup { Obj(<<>>),
           Obj(<<TStr(K("x")), Colon, TNaN>>),
           Obj(<<TStr(K("x")), Colon, TStr(<<"a">>)>>),
           Obj(<<Q, Colon, TNaN>>),
           Obj(<<Q, Colon, TNum>>),
           Obj(<<Q, Colon, TNull>>),
           Obj(<<Q, Colon, LBracket, TNum, RBracket>>),
           Obj(<<Q, Colon, LBrace, RBrace>>),
           Obj(<<Q, Colon, TStr(<<"a">>), Comma, Q, Colon, TStr(<<"b">>)>>),
           Obj(<<Q, Colon, TStr(<<"a">>), Comma>>),
           Obj(<<Q, Colon, TStr(<<"a">>)>>) \o <<TJunk>>,
           <<LBracket, TStr(<<"a">>), RBracket>> }

BodyTokens ==
    { LBrace, RBrace, LBracket, RBracket, Colon, Comma, Q, TStr(<<"a">>),
      TNum, TNaN, TNull, TJunk, TBadUtf8 }

SeqsUpTo(n) == UNION { [1..k -> BodyTokens] : k \in 0..n }

Bodies == SampleBodies \cup SeqsUpTo(MaxBodyLen)

ContentLengths(body) ==
    { [kind |-> "missing", n |-> 0], [kind |-> "nonnumeric", n |-> 0] }
    \cup { [kind |-> "int", n |-> n] : n \in 0..Len(body) }

Paths == { "/health", "/query", "/other" }

Request(method, path, content_length, body) ==
    [method |-> method, path |-> path, content_length |-> content_length,
     body |-> body]

NoLength == [kind |-> "missing", n |-> 0]
NoRequest == Request("NONE", "", NoLength, <<>>)

Requests ==
    { Request(m, p, NoLength, <<>>) : m \in {"GET", "OPTIONS"}, p \in Paths }
    \cup UNION { { Request("POST", p, cl, b) : p \in Paths, cl \in ContentLengths(b) }
                 : b \in Bodies }

----------------------------------------------------------------------------
(* main() and setup_api_key() *)

Init ==
    /\ env \in EnvValues
    /\ cli_server = BoilerAICLIServer_init
    /\ pc = "main"
    /\ setup_ret = "none"
    /\ stdin_line = <<>>
    /\ prompted = FALSE
    /\ conn = "idle"
    /\ request = NoRequest
    /\ wire = <<>>
    /\ seen = BoilerAICLIServer_init
    /\ echo_calls = 0

client == <<conn, request, wire, seen, echo_calls>>

\* main: the call of setup_api_key at line 180
MainStart ==
    /\ pc = "main"
    /\ pc' = "setup_env"
    /\ UNCHANGED <<env, cli_server, setup_ret, stdin_line, prompted, client>>

\* the environment value taken as it is
EnvKey_unstripped(e) == IF e.set THEN e.value ELSE <<>>

\* os.getenv("GEMINI_API_KEY", "").strip()
EnvKey(e) == Strip(IF e.set THEN e.value ELSE <<>>)

\* setup_api_key, lines 43-58: the environment
SetupEnv ==
    /\ pc = "setup_env"
    /\ LET env_key == EnvKey(env)
       IN IF Len(env_key) > 0
          THEN /\ cli_server' = [cli_server EXCEPT !.api_key = PyStr(env_key)]
               /\ pc' = "create_agent"
          ELSE /\ cli_server' = cli_server
               /\ pc' = "prompt_key"
    /\ UNCHANGED <<env, setup_ret, stdin_line, prompted, client>>

\* lines 62-71: where the loop goes with self.api_key just read
AfterKey(self) ==
    IF ~Truthy(self.api_key) THEN "prompt_key"
    ELSE IF self.provider = S("gemini") /\ ~StartsWith(self.api_key.s, GeminiPrefix)
    THEN "prompt_confirm"
    ELSE "create_agent"

\* lines 61-67: self.api_key = input(...).strip() and its checks
SetupInputKey ==
    /\ pc = "prompt_key"
    /\ \E line \in KeyLines :
          LET self == [cli_server EXCEPT !.api_key = PyStr(Strip(line))]
          IN /\ stdin_line' = line
             /\ cli_server' = self
             /\ pc' = AfterKey(self)
    /\ prompted' = TRUE
    /\ UNCHANGED <<env, setup_ret, client>>

\* the confirmation compared without lower()
AfterConfirm_case_sensitive(line) ==
    IF Strip(line) # <<"y">> THEN "prompt_key" ELSE "create_agent"

\* lines 68-71: confirm = input(...).strip().lower(); continue unless 'y'
AfterConfirm(line) ==
    IF Lower(Strip(line)) # <<"y">> THEN "prompt_key" ELSE "create_agent"

SetupInputConfirm ==
    /\ pc = "prompt_confirm"
    /\ \E line \in ConfirmLines :
          /\ stdin_line' = line
          /\ pc' = AfterConfirm(line)
    /\ prompted' = TRUE
    /\ UNCHANGED <<env, cli_server, setup_ret, client>>

\* lines 73-77: self.cli_agent = SimpleBoilerAI(self.api_key)
SetupCreateAgent ==
    /\ pc = "create_agent"
    /\ cli_server' =
          [cli_server EXCEPT !.cli_agent = SimpleBoilerAI_init(cli_server.api_key)]
    /\ pc' = "mark_initialized"
    /\ UNCHANGED <<env, setup_ret, stdin_line, prompted, client>>

\* lines 78-79: self.initialized = True; return True
SetupMarkInitialized ==
    /\ pc = "mark_initialized"
    /\ cli_server' = [cli_server EXCEPT !.initialized = TRUE]
    /\ setup_ret' = "True"
    /\ pc' = "setup_returned"
    /\ UNCHANGED <<env, stdin_line, prompted, client>>

\* main, lines 180-197: return on a false result, else serve_forever()
MainServe ==
    /\ pc = "setup_returned"
    /\ pc' = IF setup_ret # "True" THEN "exited" ELSE "serving"
    /\ UNCHANGED <<env, cli_server, setup_ret, stdin_line, prompted, client>>

\* main, lines 198-200: KeyboardInterrupt
MainInterrupt ==
    /\ pc = "serving"
    /\ pc' = "stopped"
    /\ UNCHANGED <<env, cli_server, setup_ret, stdin_line, prompted, client>>

\* the listener started before setup_api_key is called
Listening_before_setup == pc \notin {"main", "stopped", "exited"}

\* the listener of main: HTTPServer(('localhost', 8000), RequestHandler)
Listening == pc = "serving"

program == <<env, pc, setup_ret, stdin_line, prompted>>

----------------------------------------------------------------------------
(* Requests *)

\* a client sends a request
ClientSend ==
    /\ conn = "idle"
    /\ \E req \in Requests : request' = req
    /\ conn' = "pending"
    /\ UNCHANGED <<program, cli_server, wire, seen, echo_calls>>

Handle(h) ==
    /\ conn = "pending"
    /\ cli_server' = h.self
    /\ wire' = h.wire
    /\ echo_calls' = h.echo_calls
    /\ seen' = cli_server
    /\ conn' = "answered"
    /\ UNCHANGED <<program, request>>

HandleGET == request.method = "GET" /\ Handle(do_GET(cli_server, request))

HandlePOST == request.method = "POST" /\ Handle(do_POST(cli_server, request))

HandleOPTIONS == request.method = "OPTIONS" /\ Handle(do_OPTIONS(cli_server, request))

\* the client reads the response and the connection closes
ClientReceive ==
    /\ conn = "answered"
    /\ conn' = "idle"
    /\ request' = NoRequest
    /\ wire' = <<>>
    /\ seen' = BoilerAICLIServer_init
    /\ echo_calls' = 0
    /\ UNCHANGED <<program, cli_server>>

Program ==
    \/ MainStart
    \/ SetupEnv
    \/ SetupInputKey
    \/ SetupInputConfirm
    \/ SetupCreateAgent
    \/ SetupMarkInitialized
    \/ MainServe
    \/ MainInterrupt

\* The handler class serving the module's cli_server whenever a request
\* reaches it: under main()'s listener or under a server of the importer.
Next ==
    \/ Program
    \/ ClientSend
    \/ HandleGET
    \/ HandlePOST
    \/ HandleOPTIONS
    \/ ClientReceive

Spec == Init /\ [][Next]_vars

\* A run of main(): requests are accepted and handled by its listener only.
NextMain ==
    \/ Program
    \/ (Listening /\ ClientSend)
    \/ (Listening /\ HandleGET)
    \/ (Listening /\ HandlePOST)
    \/ (Listening /\ HandleOPTIONS)
    \/ ClientReceive

MainSpec == Init /\ [][NextMain]_vars

----------------------------------------------------------------------------
(* What a client sees *)

Answered == conn = "answered"
IsGet == request.method = "GET"
IsPost == request.method = "POST"
IsPostQuery == IsPost /\ request.path = "/query"

\* exactly one response was written, with this status
SoleStatus(status) == Len(wire) = 1 /\ wire[1].status = status

\* the response body as the client's JSON parser reads it
Reply == JsonLoads(wire[1].body)
ReplyIsDict == Len(wire) = 1 /\ Reply.ok /\ Reply.val.t = "dict"
Field(name) == DictGet(Reply.val, K(name), PyNone)

SuccessReply(q) ==
    /\ ReplyIsDict
    /\ DictKeys(Reply.val) = {K("success"), K("response"), K("provider"), K("api_key_set")}
    /\ Field("success") = PyBool(TRUE)
    /\ Field("response") = PyStr(q)
    /\ Field("provider") = S("gemini")
    /\ Field("api_key_set") = PyBool(TRUE)

NotInitializedReply ==
    /\ ReplyIsDict
    /\ DictKeys(Reply.val) = {K("success"), K("error")}
    /\ Field("success") = PyBool(FALSE)
    /\ Field("error") = S("CLI not initialized")

ErrorReply ==
    /\ ReplyIsDict
    /\ DictKeys(Reply.val) = {K("success"), K("error")}
    /\ Field("success") = PyBool(FALSE)
    /\ Field("error").t = "str"
    /\ Len(Field("error").s) > 0
    /\ \A i \in 1..Len(Field("error").s) : Field("error").s[i] # ""

\* the bytes do_POST reads when Content-Length is a number
BytesRead == Slice(request.body, request.content_length.n)

\* the request body is exactly {"query": q} for a non-empty string q
IsQueryObject ==
    /\ request.content_length.kind = "int"
    /\ request.content_length.n = Len(request.body)
    /\ Len(request.body) = 5
    /\ request.body[4].k = "str"
    /\ Len(request.body[4].s) > 0
    /\ request.body = Obj(<<Q, Colon, request.body[4]>>)

\* JSON text as RFC 8259 defines it: UTF-8, one value, no NaN or Infinity
ValidJson(toks) ==
    /\ ~DecodeFails(toks)
    /\ JsonLoads(toks).ok
    /\ StrictValue(JsonLoads(toks).val)

MalformedBody ==
    \/ request.content_length.kind = "missing"
    \/ request.content_length.kind = "int" /\ ~ValidJson(BytesRead)

SetupPcs ==
    {"setup_env", "prompt_key", "prompt_confirm", "create_agent", "mark_initialized"}
AfterSetup == {"setup_returned", "serving", "stopped", "exited"}

----------------------------------------------------------------------------
(* Claims *)

\* C1: after setup has completed, a POST /query whose body is {"query": q},
\* q any non-empty string, is answered with 200 and exactly
\* {success: true, response: q, provider: "gemini", api_key_set: true}.
C1_EchoAnyString ==
    (Answered /\ IsPostQuery /\ seen.initialized /\ IsQueryObject)
        => (SoleStatus(200) /\ SuccessReply(request.body[4].s))

\* C1 for the strings line 144 can log: q with no lone surrogate among its
\* first 100 characters is echoed as C1 states.
C1_EchoLoggableString ==
    (Answered /\ IsPostQuery /\ seen.initialized /\ IsQueryObject
       /\ Encodable(Slice(request.body[4].s, LogSlice)))
        => (SoleStatus(200) /\ SuccessReply(request.body[4].s))

\* C2: the echo operation returns the success envelope exactly when the
\* session's initialized flag is true, and the "CLI not initialized" failure
\* envelope otherwise, in every state of the session.
C2_SuccessIffInitialized ==
    (Answered /\ IsPostQuery /\ echo_calls = 1)
        => /\ ReplyIsDict
           /\ (Field("success") = PyBool(TRUE)) <=> seen.initialized
           /\ ~seen.initialized => NotInitializedReply

\* C2 with the test the code makes: success exactly when the agent exists.
C2_SuccessIffAgent ==
    (Answered /\ IsPostQuery /\ echo_calls = 1)
        => /\ ReplyIsDict
           /\ (Field("success") = PyBool(TRUE)) <=> Truthy(seen.cli_agent)
           /\ ~Truthy(seen.cli_agent) => NotInitializedReply

\* C3: a POST /query with a malformed body (not valid JSON, or no
\* Content-Length) is answered with exactly one response, a 500 whose body is
\* {success: false, error: m} with m non-empty.
C3_MalformedIs500 ==
    (Answered /\ IsPostQuery /\ MalformedBody)
        => (SoleStatus(500) /\ ErrorReply)

\* C3 for what the code's decoder rejects: no or a non-numeric Content-Length,
\* bytes that are not UTF-8, text json.loads refuses.
C3_RejectedBodyIs500 ==
    (Answered /\ IsPostQuery
       /\ (request.content_length.kind # "int" \/ DecodeFails(BytesRead)
             \/ ~JsonLoads(BytesRead).ok))
        => (SoleStatus(500) /\ ErrorReply)

\* C4: every response, for every method, path and status, carries
\* Access-Control-Allow-Origin: *.
C4_CorsOnEveryResponse ==
    Answered => \A i \in 1..Len(wire) : CorsOrigin \in wire[i].headers

\* C4 for the responses that are not 404.
C4_CorsOn200And500 ==
    (Answered /\ ~SoleStatus(404))
        => \A i \in 1..Len(wire) : CorsOrigin \in wire[i].headers

\* C5: GET /health, at any point of the process's life, is answered with 200
\* and {status: "ok", initialized: <the flag when handled>, provider:
\* "gemini", mode: "echo"}.
C5_HealthReportsFlag ==
    (Answered /\ IsGet /\ request.path = "/health")
        => /\ SoleStatus(200)
           /\ ReplyIsDict
           /\ DictKeys(Reply.val) = {K("status"), K("initialized"), K("provider"), K("mode")}
           /\ Field("status") = S("ok")
           /\ Field("initialized") = PyBool(seen.initialized)
           /\ Field("provider") = S("gemini")
           /\ Field("mode") = S("echo")

\* a health check served inside setup_api_key, between the creation of the
\* agent and the setting of the flag, reports false
C5_Witness ==
    /\ Answered /\ IsGet /\ request.path = "/health"
    /\ pc = "mark_initialized"
    /\ seen = cli_server
    /\ ReplyIsDict
    /\ Field("initialized") = PyBool(FALSE)

\* C6: a GET to a path other than /health and a POST to a path other than
\* /query get 404 with an empty body, whatever the body and Content-Length,
\* and the echo operation is not called.
C6_UnknownPathIs404 ==
    (Answered /\ ((IsGet /\ request.path # "/health") \/ (IsPost /\ request.path # "/query")))
        => (SoleStatus(404) /\ wire[1].body = <<>> /\ echo_calls = 0)

\* a POST to an unknown path with no Content-Length and a body that is not JSON
C6_Witness ==
    /\ Answered /\ IsPost /\ request.path = "/other"
    /\ request.content_length.kind = "missing"
    /\ ~ValidJson(request.body)
    /\ SoleStatus(404)

KeyHeld == Truthy(cli_server.api_key)
KeyHasPrefix == KeyHeld /\ StartsWith(cli_server.api_key.s, GeminiPrefix)
LastLineIsYes == Lower(Strip(stdin_line)) = <<"y">>

EnvRaw == IF env.set THEN env.value ELSE <<>>

\* C8 as stated: with GEMINI_API_KEY set and non-empty no prompt is issued;
\* the prompt is entered only when the variable is unset or empty.
C8_SetEnvNeverPrompts ==
    /\ (env.set /\ Len(env.value) > 0) =>
          (~prompted /\ pc \notin {"prompt_key", "prompt_confirm"})
    /\ pc \in {"prompt_key", "prompt_confirm"} => (~env.set \/ Len(env.value) = 0)

\* C8 amended: with GEMINI_API_KEY non-empty after stripping whitespace, setup
\* takes the stripped value as the key without any prompt, prefix check or
\* confirmation, and ends initialized; the prompt is entered exactly when the
\* variable is unset or blank.
C8_StrippedEnvNeverPrompts ==
    /\ Len(Strip(EnvRaw)) > 0 =>
          /\ ~prompted
          /\ pc \notin {"prompt_key", "prompt_confirm"}
          /\ pc \notin {"main", "setup_env"} => cli_server.api_key = PyStr(Strip(EnvRaw))
          /\ pc \in AfterSetup => (cli_server.initialized /\ KeyHeld)
    /\ Len(Strip(EnvRaw)) = 0 =>
          (pc \notin {"main", "setup_env"} => (prompted \/ pc = "prompt_key"))

\* a key from the environment that lacks the prefix is taken without a prompt
C8_Witness ==
    /\ pc = "serving"
    /\ env.value = PlainKey
    /\ ~prompted
    /\ cli_server.api_key = PyStr(PlainKey)
    /\ cli_server.initialized

\* C9: in a run of main() no request is handled while initialized is false:
\* every /health response reports initialized = true and no /query response
\* is the "CLI not initialized" envelope.
C9_ServesOnlyInitialized ==
    /\ conn # "idle" => (cli_server.initialized /\ pc \in {"serving", "stopped"})
    /\ Answered =>
          /\ seen.initialized
          /\ (IsGet /\ request.path = "/health") =>
                (ReplyIsDict /\ Field("initialized") = PyBool(TRUE))
          /\ IsPostQuery => ~NotInitializedReply

\* main()'s server has answered a health check and a query
C9_Witness ==
    /\ pc = "serving"
    /\ Answered /\ IsPostQuery /\ IsQueryObject
    /\ SoleStatus(200)
    /\ SuccessReply(<<"a">>)

\* C10: handling a request leaves every session field unchanged; the session
\* changes only inside setup_api_key.
C10_RequestsKeepSession ==
    /\ [][(conn = "pending" /\ conn' = "answered") => cli_server' = cli_server]_vars
    /\ [][cli_server' # cli_server => (pc \in SetupPcs /\ conn' = conn)]_vars

\* a query was echoed and the session is as the handler found it
C10_Witness ==
    /\ Answered /\ IsPostQuery /\ echo_calls = 1
    /\ SoleStatus(200)
    /\ cli_server = seen
    /\ cli_server.initialized

====
